---- MODULE Spec2Model ----
(***************************************************************************)
(* Branching questionnaire server (src/app.py): the definition parser      *)
(* load_survey_from_excel, the registry load_all_surveys, the answer       *)
(* handler api_answer and the summary formatter _answers_to_text.          *)
(*                                                                         *)
(* Python str values are TLA+ strings.  An Optional[str] that the code     *)
(* builds as `x or None` is None or non-empty, never "", and is only       *)
(* tested with `not x`; it is written "" here.  A spreadsheet cell is the  *)
(* string pandas read; an empty cell (NaN) is "", which _safe_str maps to  *)
(* "" as well.  A JSON value of a request is a record tagged t: "int" with  *)
(* field n, "str" with field s, "list" with field l; a key the request     *)
(* lacks is absent from the record, as data.get(key) then yields None.     *)
(***************************************************************************)
EXTENDS Integers, Sequences, FiniteSets, TLC

VARIABLES
    defn,       \* parser: the sheet being parsed (meta rows, question rows)
    rowi,       \* parser: number of question rows consumed by the loop
    questions,  \* parser: dict qid -> Question built so far
    qorder,     \* parser: insertion order of the keys of `questions`
    pstate,     \* parser: "meta" | "rows" | "done" | "error"
    survey,     \* parser: the returned Survey (NoSurvey until returned)
    dir,        \* registry: names os.listdir returns
    pending,    \* registry: names the loop has not reached yet
    surveys,    \* registry: dict key -> Survey
    rstate,     \* registry: "loading" | "done" | "raised"
    poll,       \* engine: the Survey the request addresses
    cur,        \* engine: client-carried current question id
    acc,        \* engine: client-carried answers accumulator
    acc0,       \* engine: the accumulator the session started with
    req,        \* engine: last request body
    resp,       \* engine: last response body, with its HTTP status
    path        \* engine: qids of the accepted submissions, in order

vars == <<defn, rowi, questions, qorder, pstate, survey,
          dir, pending, surveys, rstate,
          poll, cur, acc, acc0, req, resp, path>>

parserVars == <<defn, rowi, questions, qorder, pstate, survey>>
registryVars == <<dir, pending, surveys, rstate>>
engineVars == <<poll, cur, acc, acc0, req, resp, path>>

(***************************************************************************)
(* Bounds                                                                  *)
(***************************************************************************)
MaxRows == 3        \* question rows in a generated sheet
MaxAnswers == 4     \* accepted submissions in one session

(***************************************************************************)
(* Program constants                                                       *)
(***************************************************************************)
NumSlots == 10      \* Answer1..Answer10, NextIfAnswer1..NextIfAnswer10
\* The two Russian literals of lines 120-121 and the one of line 275 are
\* transliterated: module text is ASCII.
DefaultFinalTitle == "Gotovo"
DefaultFinalText == "Spasibo! Vashi otvety:\n{answers}"
Placeholder == "{answers}"
DefaultLabel == "Vopros"
DefaultKey == "survey"
QTypes == {"single", "multi", "text", "number"}

(***************************************************************************)
(* String helpers                                                          *)
(***************************************************************************)
Ch(s, i) == SubSeq(s, i, i)

Tail_(s) == SubSeq(s, 2, Len(s))

IsSpace(c) == c \in {" ", "\n"}

RECURSIVE LStrip(_)
LStrip(s) ==
    IF Len(s) > 0 /\ IsSpace(Ch(s, 1)) THEN LStrip(Tail_(s)) ELSE s

RECURSIVE RStrip(_)
RStrip(s) ==
    IF Len(s) > 0 /\ IsSpace(Ch(s, Len(s)))
    THEN RStrip(SubSeq(s, 1, Len(s) - 1)) ELSE s

Strip(s) == RStrip(LStrip(s))

UpperAlpha == "ABCDEFGHIJKLMNOPQRSTUVWXYZ"
LowerAlpha == "abcdefghijklmnopqrstuvwxyz"
Digits == "0123456789"

InStr(c, s) == \E i \in 1..Len(s) : Ch(s, i) = c

LowerChar(c) ==
    IF InStr(c, UpperAlpha)
    THEN Ch(LowerAlpha, CHOOSE i \in 1..26 : Ch(UpperAlpha, i) = c)
    ELSE c

RECURSIVE Lower(_)
Lower(s) ==
    IF Len(s) = 0 THEN "" ELSE LowerChar(Ch(s, 1)) \o Lower(Tail_(s))

StartsWith(s, p) == Len(s) >= Len(p) /\ SubSeq(s, 1, Len(p)) = p

EndsWith(s, p) ==
    Len(s) >= Len(p) /\ SubSeq(s, Len(s) - Len(p) + 1, Len(s)) = p

\* str.replace(old, new): every non-overlapping occurrence, left to right
RECURSIVE Replace(_, _, _)
Replace(s, old, new) ==
    IF Len(s) < Len(old) THEN s
    ELSE IF StartsWith(s, old)
         THEN new \o Replace(SubSeq(s, Len(old) + 1, Len(s)), old, new)
         ELSE Ch(s, 1) \o Replace(Tail_(s), old, new)

\* sep.join(items)
RECURSIVE Join(_, _)
Join(sep, items) ==
    IF Len(items) = 0 THEN ""
    ELSE IF Len(items) = 1 THEN items[1]
    ELSE items[1] \o sep \o Join(sep, Tail(items))

safe_str(v) == Strip(v)

norm(s) == Lower(Strip(s))

(***************************************************************************)
(* Data model (lines 63-91) and Python dict with insertion order           *)
(***************************************************************************)
Option(i, a, n) == [idx |-> i, text |-> a, next_qid |-> n]

Question(qid, qtype, title, text, opts, next_id) ==
    [qid |-> qid, qtype |-> qtype, title |-> title, text |-> text,
     options |-> opts, next_id |-> next_id]

Survey(key, file_name, title, start_qid, final_title, final_text, qs, order) ==
    [key |-> key, file_name |-> file_name, title |-> title,
     start_qid |-> start_qid, final_title |-> final_title,
     final_text |-> final_text, questions |-> qs, qorder |-> order]

EmptyDict == [k \in {} |-> k]

DictPut(d, k, v) == [x \in DOMAIN d \cup {k} |-> IF x = k THEN v ELSE d[x]]

\* variant: a key assigned again moves to the end of the iteration order
OrderPutMoveToEnd(d, order, k) ==
    Append(SelectSeq(order, LAMBDA x : x # k), k)

\* a key assigned again keeps its place in the iteration order
OrderPut(d, order, k) == IF k \in DOMAIN d THEN order ELSE Append(order, k)

NoSurvey == Survey("", "", "", "", "", "", EmptyDict, <<>>)

(***************************************************************************)
(* _slugify (lines 55-60)                                                  *)
(***************************************************************************)
LastIndexOf(s, c) ==
    IF InStr(c, s)
    THEN CHOOSE i \in 1..Len(s) :
            Ch(s, i) = c /\ \A j \in (i + 1)..Len(s) : Ch(s, j) # c
    ELSE 0

basename(p) == SubSeq(p, LastIndexOf(p, "/") + 1, Len(p))

\* os.path.splitext(name)[0]: cut at the last dot, unless only dots lead it
splitext_root(name) ==
    LET i == LastIndexOf(name, ".")
    IN  IF i > 1 /\ \E j \in 1..(i - 1) : Ch(name, j) # "."
        THEN SubSeq(name, 1, i - 1) ELSE name

\* re.sub(r"\s+", "_", s)
RECURSIVE SpacesToUnderscore(_)
SpacesToUnderscore(s) ==
    IF Len(s) = 0 THEN ""
    ELSE IF IsSpace(Ch(s, 1))
         THEN "_" \o SpacesToUnderscore(LStrip(s))
         ELSE Ch(s, 1) \o SpacesToUnderscore(Tail_(s))

SlugChar(c) ==
    InStr(c, UpperAlpha) \/ InStr(c, LowerAlpha) \/ InStr(c, Digits)
        \/ c \in {"_", "-"}

\* re.sub(r"[^A-Za-z0-9_-]+", "", s)
RECURSIVE KeepSlugChars(_)
KeepSlugChars(s) ==
    IF Len(s) = 0 THEN ""
    ELSE (IF SlugChar(Ch(s, 1)) THEN Ch(s, 1) ELSE "")
            \o KeepSlugChars(Tail_(s))

slugify(name) ==
    LET base == KeepSlugChars(SpacesToUnderscore(splitext_root(basename(name))))
    IN  IF base = "" THEN DefaultKey ELSE base

(***************************************************************************)
(* load_survey_from_excel (lines 94-187)                                   *)
(*   A sheet is [path, meta, rows]: meta the rows with RowType=survey,     *)
(*   rows the rows with RowType=question, both in sheet order.  All        *)
(*   required columns are present.                                         *)
(***************************************************************************)
RECURSIVE GatherOptions(_, _)
GatherOptions(r, i) ==
    IF i > NumSlots THEN <<>>
    ELSE LET a == safe_str(r.Answer[i])
             n == safe_str(r.NextIfAnswer[i])
         IN  (IF a # "" THEN <<Option(i, a, n)>> ELSE <<>>)
                \o GatherOptions(r, i + 1)

RowSkipped(r) == safe_str(r.Id) = ""

RowType(r) == norm(safe_str(r.Type))

RowRaises(r) ==
    /\ ~RowSkipped(r)
    /\ \/ RowType(r) \notin QTypes
       \/ RowType(r) \in {"single", "multi"} /\ GatherOptions(r, 1) = <<>>

RowQuestion(r) ==
    Question(safe_str(r.Id), RowType(r), safe_str(r.QuestionTitle),
             safe_str(r.QuestionText), GatherOptions(r, 1), safe_str(r.NextId))

\* one iteration of the loop of line 127 on the loop state [q, order, err]
RowStep(st, r) ==
    IF RowSkipped(r) THEN st
    ELSE IF RowRaises(r) THEN [st EXCEPT !.err = TRUE]
    ELSE [q |-> DictPut(st.q, safe_str(r.Id), RowQuestion(r)),
          order |-> OrderPut(st.q, st.order, safe_str(r.Id)),
          err |-> FALSE]

RECURSIVE RowLoop(_, _, _)
RowLoop(st, rows, i) ==
    IF st.err \/ i > Len(rows) THEN st
    ELSE RowLoop(RowStep(st, rows[i]), rows, i + 1)

StartQid(start_qid, qs, order) ==
    IF start_qid = "" \/ start_qid \notin DOMAIN qs THEN order[1] ELSE start_qid

Or(s, default) == IF s = "" THEN default ELSE s

\* lines 109-121 and 171-187, given the dict the loop built
FinishSurvey(d, qs, order) ==
    LET m == d.meta[1]
        key == slugify(d.path)
    IN  Survey(key, basename(d.path), Or(safe_str(m.SurveyTitle), key),
               StartQid(safe_str(m.StartQuestionId), qs, order),
               Or(safe_str(m.FinalTitle), DefaultFinalTitle),
               Or(safe_str(m.FinalText), DefaultFinalText), qs, order)

\* [ok, survey]: ok = FALSE when the function raises ValueError
load_survey_from_excel(d) ==
    LET st == RowLoop([q |-> EmptyDict, order |-> <<>>, err |-> FALSE],
                      d.rows, 1)
    IN  IF d.meta = <<>> \/ st.err \/ DOMAIN st.q = {}
        THEN [ok |-> FALSE, survey |-> NoSurvey]
        ELSE [ok |-> TRUE, survey |-> FinishSurvey(d, st.q, st.order)]

(***************************************************************************)
(* Sheets the parser is run on                                             *)
(***************************************************************************)
\* answer cells of one row: slots 1 and 3 filled as given, the rest empty
Cells(a1, a3) == [i \in 1..NumSlots |-> IF i = 1 THEN a1 ELSE IF i = 3 THEN a3 ELSE ""]

Row(id, type, title, next, a1, n1, a3, n3) ==
    [Id |-> id, Type |-> type, QuestionTitle |-> title, QuestionText |-> "",
     NextId |-> next, Answer |-> Cells(a1, a3), NextIfAnswer |-> Cells(n1, n3)]

Meta(start, final_text) ==
    [SurveyTitle |-> "", StartQuestionId |-> start, FinalTitle |-> "",
     FinalText |-> final_text]

Sheet(file, meta, rows) == [path |-> "data/" \o file, meta |-> meta, rows |-> rows]

ParserRows ==
    { Row("Q1", "single", "T", "", "Yes", "Q2", "No", ""),
      Row("Q1", " Single ", "", "Q2", "Yes", "Q9", "", "Q1"),
      Row("Q1", "text", "T", " Q2 ", "", "", "", ""),
      Row("Q1", "radio", "T", "", "Yes", "", "", ""),
      Row(" Q2 ", "Multi", "T", "Q1", "A", "Q9", "B", ""),
      Row(" Q2 ", "text", "T", " Q9 ", "", "", "", ""),
      Row(" Q2 ", "number", "", "", "A", "Q1", "", ""),
      Row(" Q2 ", "multi", "T", "", " ", "", "", ""),
      Row("", "radio", "T", "", "", "", "", ""),
      Row(" ", "single", "T", "", "Yes", "", "", "") }

ParserStarts == {"", "Q2", "Q5"}

SeqsUpTo(S, n) == UNION { [1..k -> S] : k \in 0..n }

ParserSheets ==
    { Sheet("poll.xlsx", <<Meta(st, "")>>, rows) :
        st \in ParserStarts, rows \in SeqsUpTo(ParserRows, MaxRows) }
    \cup { Sheet("poll.xlsx", <<>>, rows) : rows \in SeqsUpTo(ParserRows, 1) }

(***************************************************************************)
(* The parser, one loop iteration at a time                                *)
(***************************************************************************)
NoResponse == [status |-> 0]
NoRequest == [qid |-> ""]

RegistryIdle ==
    /\ dir = {} /\ pending = {} /\ surveys = EmptyDict /\ rstate = "idle"

EngineIdle ==
    /\ poll = NoSurvey /\ cur = "" /\ acc = <<>> /\ acc0 = <<>>
    /\ req = NoRequest /\ resp = NoResponse /\ path = <<>>

ParserIdle ==
    /\ defn = Sheet("", <<>>, <<>>) /\ rowi = 0 /\ questions = EmptyDict
    /\ qorder = <<>> /\ pstate = "idle" /\ survey = NoSurvey

InitParser ==
    /\ defn \in ParserSheets
    /\ rowi = 0
    /\ questions = EmptyDict
    /\ qorder = <<>>
    /\ pstate = "meta"
    /\ survey = NoSurvey
    /\ RegistryIdle
    /\ EngineIdle

\* lines 112-114: the meta row must exist
ParseMeta ==
    /\ pstate = "meta"
    /\ pstate' = IF defn.meta = <<>> THEN "error" ELSE "rows"
    /\ UNCHANGED <<defn, rowi, questions, qorder, survey>>
    /\ UNCHANGED <<registryVars, engineVars>>

\* lines 127-169: one question row
ParseRow ==
    /\ pstate = "rows"
    /\ rowi < Len(defn.rows)
    /\ LET st == RowStep([q |-> questions, order |-> qorder, err |-> FALSE],
                         defn.rows[rowi + 1])
       IN  /\ questions' = st.q
           /\ qorder' = st.order
           /\ pstate' = IF st.err THEN "error" ELSE "rows"
    /\ rowi' = rowi + 1
    /\ UNCHANGED <<defn, survey>>
    /\ UNCHANGED <<registryVars, engineVars>>

\* lines 171-187: no questions raises, else the Survey is returned
ParseFinish ==
    /\ pstate = "rows"
    /\ rowi = Len(defn.rows)
    /\ IF DOMAIN questions = {}
       THEN pstate' = "error" /\ survey' = survey
       ELSE pstate' = "done" /\ survey' = FinishSurvey(defn, questions, qorder)
    /\ UNCHANGED <<defn, rowi, questions, qorder>>
    /\ UNCHANGED <<registryVars, engineVars>>

NextParser == ParseMeta \/ ParseRow \/ ParseFinish

SpecParser == InitParser /\ [][NextParser]_vars

(***************************************************************************)
(* load_all_surveys (lines 190-224), one directory entry at a time         *)
(***************************************************************************)
RegistryNames ==
    {"a.xlsx", "a!.xlsx", "A b.XLSX", "a_2.xlsx", "a_3.xlsx", "!.xlsx",
     "~$a.xlsx", "notes.txt", "bad.xlsx"}

\* what each file holds: one text question, except bad.xlsx, which has none
FileSheet(name) ==
    Sheet(name, <<Meta("", "")>>,
          IF name = "bad.xlsx" THEN <<>>
          ELSE <<Row("Q1", "text", name, "", "", "", "", "")>>)

\* lines 196-199
Eligible(name) == EndsWith(Lower(name), ".xlsx") /\ ~StartsWith(name, "~$")

\* lines 205-207
UniqueKey(reg, key) ==
    IF key \in DOMAIN reg
    THEN key \o "_" \o ToString(Cardinality(DOMAIN reg) + 1)
    ELSE key

\* lines 205-218
Register(reg, s) ==
    LET key == UniqueKey(reg, s.key)
    IN  DictPut(reg, key, [s EXCEPT !.key = key])

InitRegistry ==
    /\ dir \in SUBSET RegistryNames
    /\ pending = dir
    /\ surveys = EmptyDict
    /\ rstate = "loading"
    /\ ParserIdle
    /\ EngineIdle

\* one iteration of the loop of line 195; os.listdir fixes no order
LoadFile ==
    /\ rstate = "loading"
    /\ \E name \in pending :
        /\ pending' = pending \ {name}
        /\ IF ~Eligible(name)
           THEN UNCHANGED <<surveys, rstate>>
           ELSE LET r == load_survey_from_excel(FileSheet(name))
                IN  IF r.ok
                    THEN /\ surveys' = Register(surveys, r.survey)
                         /\ rstate' = rstate
                    ELSE /\ rstate' = "raised"
                         /\ surveys' = surveys
    /\ UNCHANGED dir
    /\ UNCHANGED <<parserVars, engineVars>>

\* line 224
LoadReturn ==
    /\ rstate = "loading"
    /\ pending = {}
    /\ rstate' = "done"
    /\ UNCHANGED <<dir, pending, surveys>>
    /\ UNCHANGED <<parserVars, engineVars>>

NextRegistry == LoadFile \/ LoadReturn

SpecRegistry == InitRegistry /\ [][NextRegistry]_vars

(***************************************************************************)
(* _answers_to_text (lines 271-278)                                        *)
(***************************************************************************)
\* dict.get(k) or ""
Get(a, k) == IF k \in DOMAIN a THEN a[k] ELSE ""

\* variant: the title alone labels a line
AnswerLabelTitleOnly(a) == Get(a, "question_title")

AnswerLabel(a) ==
    Or(Get(a, "question_title"), Or(Get(a, "qid"), DefaultLabel))

AnswerLine(a) == AnswerLabel(a) \o ": " \o Get(a, "value_text")

answers_to_text(answers) ==
    Join("\n", [i \in 1..Len(answers) |-> AnswerLine(answers[i])])

(***************************************************************************)
(* api_answer (lines 281-378)                                              *)
(***************************************************************************)
JInt(n) == [t |-> "int", n |-> n]
JStr(x) == [t |-> "str", s |-> x]
JList(l) == [t |-> "list", l |-> l]

Has(data, k) == k \in DOMAIN data

Err(code, status) == [ok |-> FALSE, error |-> code, status |-> status]

\* the outcome of the per-type branch: an error code, or the rendered value
\* and the next id
Reject(code) == [err |-> code, value_text |-> "", next_qid |-> ""]
Accept(value_text, next_qid) ==
    [err |-> "", value_text |-> value_text, next_qid |-> next_qid]

\* line 306: the first option with that idx, <<>> when there is none
FindOption(q, i) == SelectSeq(q.options, LAMBDA o : o.idx = i)

\* variant: an option without a next id falls back on the shared NextId
SingleNextOrShared(q, opt) ==
    IF opt.next_qid = "" THEN q.next_id ELSE opt.next_qid

\* the id a single question continues with (line 311)
SingleNext(q, opt) == opt.next_qid

\* the id a multi, text or number question continues with (323, 330, 343)
SharedNext(q) == q.next_id

\* lines 301-311
EvalSingle(q, data) ==
    IF ~Has(data, "option_idx") \/ data.option_idx.t # "int"
    THEN Reject("bad_request")
    ELSE LET hits == FindOption(q, data.option_idx.n)
         IN  IF hits = <<>> THEN Reject("invalid_option")
             ELSE Accept(hits[1].text, SingleNext(q, hits[1]))

\* line 318: texts of the options whose idx was sent, in option order
Chosen(q, idxs) ==
    LET sel == SelectSeq(q.options, LAMBDA o : o.idx \in idxs)
    IN  [i \in 1..Len(sel) |-> sel[i].text]

\* variant: the texts follow the list as sent, repeats included
EvalMultiAsSent(q, data) ==
    IF \/ ~Has(data, "option_idxs")
       \/ data.option_idxs.t # "list"
       \/ \E i \in 1..Len(data.option_idxs.l) : data.option_idxs.l[i].t # "int"
    THEN Reject("bad_request")
    ELSE LET sel == SelectSeq(data.option_idxs.l,
                              LAMBDA j : FindOption(q, j.n) # <<>>)
             chosen == [i \in 1..Len(sel) |-> FindOption(q, sel[i].n)[1].text]
         IN  IF chosen = <<>> THEN Reject("no_selection")
             ELSE Accept(Join(", ", chosen), SharedNext(q))

\* variant: a selection that resolves to nothing is let through
EvalMultiUnchecked(q, data) ==
    IF \/ ~Has(data, "option_idxs")
       \/ data.option_idxs.t # "list"
       \/ \E i \in 1..Len(data.option_idxs.l) : data.option_idxs.l[i].t # "int"
    THEN Reject("bad_request")
    ELSE LET l == data.option_idxs.l
         IN  Accept(Join(", ", Chosen(q, {l[i].n : i \in 1..Len(l)})),
                    SharedNext(q))

\* lines 313-323; sorted(set(...)) is only ever tested for membership
EvalMulti(q, data) ==
    IF \/ ~Has(data, "option_idxs")
       \/ data.option_idxs.t # "list"
       \/ \E i \in 1..Len(data.option_idxs.l) : data.option_idxs.l[i].t # "int"
    THEN Reject("bad_request")
    ELSE LET l == data.option_idxs.l
             chosen == Chosen(q, {l[i].n : i \in 1..Len(l)})
         IN  IF chosen = <<>> THEN Reject("no_selection")
             ELSE Accept(Join(", ", chosen), SharedNext(q))

\* _safe_str(data.get("value")) for an absent, str or int value
ValueStr(data) ==
    IF ~Has(data, "value") THEN ""
    ELSE IF data.value.t = "int" THEN ToString(data.value.n)
    ELSE safe_str(data.value.s)

\* lines 325-330
EvalText(q, data) ==
    IF ValueStr(data) = "" THEN Reject("empty_value")
    ELSE Accept(ValueStr(data), SharedNext(q))

AllDigits(x) == Len(x) > 0 /\ \A i \in 1..Len(x) : InStr(Ch(x, i), Digits)

RECURSIVE DigitsValue(_)
DigitsValue(x) ==
    IF Len(x) = 0 THEN 0
    ELSE 10 * DigitsValue(SubSeq(x, 1, Len(x) - 1))
            + (CHOOSE d \in 0..9 : Ch(Digits, d + 1) = Ch(x, Len(x)))

\* str(float(vs)) for a string of decimal digits below 10^16; of the strings
\* the requests of this model carry, float() accepts exactly those
FloatStr(x) == ToString(DigitsValue(x)) \o ".0"

\* lines 332-343
EvalNumber(q, data) ==
    IF Has(data, "value") /\ data.value.t = "int"
    THEN Accept(ToString(data.value.n), SharedNext(q))
    ELSE IF AllDigits(ValueStr(data))
         THEN Accept(FloatStr(ValueStr(data)), SharedNext(q))
         ELSE Reject("bad_number")

Evaluate(q, data) ==
    CASE q.qtype = "single" -> EvalSingle(q, data)
      [] q.qtype = "multi" -> EvalMulti(q, data)
      [] q.qtype = "text" -> EvalText(q, data)
      [] q.qtype = "number" -> EvalNumber(q, data)
      [] OTHER -> Reject("unsupported_type")

\* lines 350-356
AnswerRecord(qid, q, value_text) ==
    [qid |-> qid, question_title |-> q.title, question_text |-> q.text,
     type |-> q.qtype, value_text |-> value_text]

\* variant: the caller's list is dropped
AppendedFresh(data, rec) == <<rec>>

\* lines 348-356: the caller's list, copied, with the new record appended
Appended(data, rec) ==
    Append(IF Has(data, "answers") THEN data.answers ELSE <<>>, rec)

\* line 361
FinalText(s, answers) ==
    Replace(s.final_text, Placeholder, answers_to_text(answers))

\* variant: the next id is not looked up before it is returned
RespondUnchecked(s, answers, next_qid) ==
    IF next_qid = ""
    THEN [ok |-> TRUE, finished |-> TRUE, final_title |-> s.final_title,
          final_text |-> FinalText(s, answers), answers |-> answers,
          status |-> 200]
    ELSE [ok |-> TRUE, finished |-> FALSE, next_qid |-> next_qid,
          answers |-> answers, status |-> 200]

\* lines 358-378
Respond(s, answers, next_qid) ==
    IF next_qid = ""
    THEN [ok |-> TRUE, finished |-> TRUE, final_title |-> s.final_title,
          final_text |-> FinalText(s, answers), answers |-> answers,
          status |-> 200]
    ELSE IF next_qid \notin DOMAIN s.questions
    THEN [ok |-> FALSE, error |-> "next_question_missing",
          next_qid |-> next_qid, status |-> 500]
    ELSE [ok |-> TRUE, finished |-> FALSE, next_qid |-> next_qid,
          answers |-> answers, status |-> 200]

api_answer(s, data) ==
    LET qid == IF Has(data, "qid") THEN safe_str(data.qid) ELSE ""
    IN  IF qid = "" THEN Err("bad_request", 400)
        ELSE IF qid \notin DOMAIN s.questions THEN Err("question_not_found", 404)
        ELSE LET q == s.questions[qid]
                 e == Evaluate(q, data)
             IN  IF e.err = "unsupported_type" THEN Err(e.err, 500)
                 ELSE IF e.err # "" THEN Err(e.err, 400)
                 ELSE Respond(s, Appended(data, AnswerRecord(qid, q, e.value_text)),
                              e.next_qid)

(***************************************************************************)
(* Sessions: a client that carries (current question, answers) and posts   *)
(* to api_answer                                                           *)
(***************************************************************************)
\* Q1 single -> Q2 multi -> Q3 text -> Q4 number, with the branch targets,
\* the first title and the finish text as given
EngineSheet(a, d, e, t1, ft) ==
    Sheet("poll.xlsx", <<Meta("Q1", ft)>>,
          << Row("Q1", "single", t1, "Q4", "Yes", a, "No", ""),
             Row("Q2", "multi", "Pick", d, "A", "Q4", "B", ""),
             Row("Q3", "text", "Why", e, "", "", "", ""),
             Row("Q4", "number", "", "", "", "", "", "") >>)

EngineLooks ==
    { <<"Start", "">>, <<"", "Bye {answers">>, <<"", "{answers}|{answers}">> }

EngineSheets ==
    { EngineSheet(a, d, e, l[1], l[2]) :
        a \in {"Q2", "Q3", "Q9"}, d \in {"Q3", "", "Q9"}, e \in {"Q4", "Q1"},
        l \in EngineLooks }

\* the Surveys the registry can hold for these sheets
EngineSurveys == { load_survey_from_excel(d).survey : d \in EngineSheets }

\* accumulators a session starts with: empty, or one foreign record
StartAccs == { <<>>, <<[value_text |-> "x"]>> }

OptionIdxPayloads == { JInt(0), JInt(1), JInt(3), JStr("1") }

OptionIdxsPayloads ==
    { JList(<<>>), JList(<<JInt(2), JInt(7)>>), JList(<<JInt(3)>>),
      JList(<<JInt(3), JInt(7), JInt(1), JInt(3)>>),
      JList(<<JInt(1), JInt(1)>>), JList(<<JInt(1), JStr("3")>>), JInt(1) }

ValuePayloads == { JStr(" "), JStr("a\nb "), JInt(7), JStr(" 07 "), JStr("x") }

ForeignQids == { "", "Q9" }

InitEngine ==
    /\ poll \in EngineSurveys
    /\ cur = poll.start_qid
    /\ acc0 \in StartAccs
    /\ acc = acc0
    /\ req = NoRequest
    /\ resp = NoResponse
    /\ path = <<>>
    /\ ParserIdle
    /\ RegistryIdle

\* one POST and what the client does with the answer: it follows next_qid
\* and keeps the returned answers; after finished it posts no more
Post(data) ==
    /\ cur # ""
    /\ Len(path) < MaxAnswers
    /\ req' = data
    /\ resp' = api_answer(poll, data)
    /\ IF resp'.status = 200
       THEN /\ acc' = resp'.answers
            /\ cur' = IF resp'.finished THEN "" ELSE resp'.next_qid
            /\ path' = Append(path, data.qid)
       ELSE UNCHANGED <<acc, cur, path>>
    /\ UNCHANGED <<poll, acc0>>
    /\ UNCHANGED <<parserVars, registryVars>>

SubmitOption ==
    \E i \in OptionIdxPayloads :
        Post([qid |-> cur, answers |-> acc, option_idx |-> i])

SubmitOptions ==
    \E l \in OptionIdxsPayloads :
        Post([qid |-> cur, answers |-> acc, option_idxs |-> l])

SubmitValue ==
    \E v \in ValuePayloads :
        Post([qid |-> cur, answers |-> acc, value |-> v])

\* a body with no answer key, for the current or a foreign question id
SubmitBare ==
    \E q \in ForeignQids \cup {cur} :
        Post([qid |-> q, answers |-> acc])

Next == SubmitOption \/ SubmitOptions \/ SubmitValue \/ SubmitBare

Init == InitEngine

Spec == Init /\ [][Next]_vars

(***************************************************************************)
(* Vocabulary of the properties                                            *)
(***************************************************************************)
Asked == req.qid \in DOMAIN poll.questions

AskedQuestion == poll.questions[req.qid]

IsAdvancedTo == resp.status = 200 /\ ~resp.finished

IsFinished == resp.status = 200 /\ resp.finished

IsRejected == resp.status = 400

\* the submission got past the per-type validation
PassedValidation ==
    resp.status = 200 \/ (resp.status = 500 /\ resp.error = "next_question_missing")

ResolvedNext == IF "next_qid" \in DOMAIN resp THEN resp.next_qid ELSE ""

ValidIdxs(q) == { q.options[i].idx : i \in 1..Len(q.options) }

OptionAt(q, i) ==
    q.options[CHOOSE k \in 1..Len(q.options) : q.options[k].idx = i]

SentIdx == Has(req, "option_idx") /\ req.option_idx.t = "int"

SentIdxList ==
    /\ Has(req, "option_idxs")
    /\ req.option_idxs.t = "list"
    /\ \A i \in 1..Len(req.option_idxs.l) : req.option_idxs.l[i].t = "int"

SentIdxs == { req.option_idxs.l[i].n : i \in 1..Len(req.option_idxs.l) }

\* 1-based position of the first occurrence of p in x, 0 when there is none
IndexOf(x, p) ==
    IF \E i \in 1..(Len(x) - Len(p) + 1) : SubSeq(x, i, i + Len(p) - 1) = p
    THEN CHOOSE i \in 1..(Len(x) - Len(p) + 1) :
            /\ SubSeq(x, i, i + Len(p) - 1) = p
            /\ \A j \in 1..(i - 1) : SubSeq(x, j, j + Len(p) - 1) # p
    ELSE 0

\* x.split(p)
RECURSIVE SplitOn(_, _)
SplitOn(x, p) ==
    LET i == IndexOf(x, p)
    IN  IF i = 0 THEN <<x>>
        ELSE <<SubSeq(x, 1, i - 1)>> \o SplitOn(SubSeq(x, i + Len(p), Len(x)), p)

\* x with only its first occurrence of p replaced by y
ReplaceFirst(x, p, y) ==
    LET i == IndexOf(x, p)
    IN  IF i = 0 THEN x
        ELSE SubSeq(x, 1, i - 1) \o y \o SubSeq(x, i + Len(p), Len(x))

(***************************************************************************)
(* C1                                                                      *)
(***************************************************************************)
\* C1: a valid option index submitted to a single question always yields
\* AdvancedTo when that option's next id is set and Finished when it is
\* empty, and no error outcome.
C1_ValidSingleAdvancesOrFinishes ==
    (Asked /\ AskedQuestion.qtype = "single" /\ SentIdx
        /\ req.option_idx.n \in ValidIdxs(AskedQuestion))
    => IF OptionAt(AskedQuestion, req.option_idx.n).next_qid # ""
       THEN IsAdvancedTo ELSE IsFinished

(***************************************************************************)
(* C2                                                                      *)
(***************************************************************************)
TargetResolves(s, id) == id = "" \/ id \in DOMAIN s.questions

\* C2: in every Survey the parser returns, each option next id of a single
\* question and each shared next id of a multi, text or number question is
\* empty or a key of the Survey's question mapping.
C2_BranchTargetsResolve ==
    pstate = "done" =>
        \A k \in DOMAIN survey.questions :
            LET q == survey.questions[k]
            IN  IF q.qtype = "single"
                THEN \A i \in 1..Len(q.options) :
                        TargetResolves(survey, q.options[i].next_qid)
                ELSE TargetResolves(survey, q.next_id)

(***************************************************************************)
(* C3                                                                      *)
(***************************************************************************)
\* C3: the next id of a submission that passed validation is the chosen
\* option's own next id for a single question and the question's shared next
\* id for a multi, text or number question.
C3_NextIdByType ==
    (Asked /\ PassedValidation) =>
        ResolvedNext =
            IF AskedQuestion.qtype = "single"
            THEN OptionAt(AskedQuestion, req.option_idx.n).next_qid
            ELSE AskedQuestion.next_id

\* a single question ends the survey through its option although its shared
\* NextId names a question
C3_Witness ==
    /\ Asked /\ IsFinished
    /\ AskedQuestion.qtype = "single"
    /\ AskedQuestion.next_id \in DOMAIN poll.questions

(***************************************************************************)
(* C4                                                                      *)
(***************************************************************************)
\* texts of the options whose idx is in S, by ascending idx
RECURSIVE AscendingTexts(_, _)
AscendingTexts(q, S) ==
    IF S = {} THEN <<>>
    ELSE LET m == CHOOSE x \in S : \A y \in S : x <= y
         IN  <<OptionAt(q, m).text>> \o AscendingTexts(q, S \ {m})

NothingSelected ==
    \/ /\ AskedQuestion.qtype = "multi"
       /\ SentIdxList
       /\ SentIdxs \cap ValidIdxs(AskedQuestion) = {}
    \/ /\ AskedQuestion.qtype = "single"
       /\ \/ ~Has(req, "option_idx")
          \/ SentIdx /\ req.option_idx.n \notin ValidIdxs(AskedQuestion)

\* C5: an empty selection, or one none of whose indices is an option, sent
\* to a multi or single question is rejected; the response holds only the
\* error and the accumulator stays as it was sent.
C5_NothingSelectedRejected ==
    (Asked /\ NothingSelected) =>
        /\ IsRejected
        /\ ~resp.ok
        /\ DOMAIN resp = {"ok", "error", "status"}
        /\ acc = req.answers

\* a non-empty list of indices, none of them an option, was rejected
C5_Witness ==
    /\ Asked /\ AskedQuestion.qtype = "multi" /\ SentIdxList
    /\ SentIdxs # {}
    /\ SentIdxs \cap ValidIdxs(AskedQuestion) = {}
    /\ IsRejected
    /\ acc # <<>>

(***************************************************************************)
(* C6                                                                      *)
(***************************************************************************)
TitleValueLines(answers) ==
    Join("\n", [i \in 1..Len(answers) |->
                    Get(answers[i], "question_title") \o ": "
                        \o Get(answers[i], "value_text")])

\* C6 as stated: on Finished the final text is the template with the
\* "<title>: <value>" lines of the N records, newline-joined, put in place
\* of the placeholder by a single substitution; a template without the
\* placeholder is returned unchanged.
C6_TitleValueLinesSubstitutedOnce ==
    IsFinished =>
        resp.final_text =
            ReplaceFirst(poll.final_text, Placeholder, TitleValueLines(resp.answers))

LabelOf(a) ==
    IF Get(a, "question_title") # "" THEN a.question_title
    ELSE IF Get(a, "qid") # "" THEN a.qid
    ELSE DefaultLabel

LabelValueLines(answers) ==
    Join("\n", [i \in 1..Len(answers) |->
                    LabelOf(answers[i]) \o ": " \o Get(answers[i], "value_text")])

\* C6 as amended: on Finished the final text is the template with every
\* occurrence of the placeholder replaced by the newline-join of the N
\* records, in submission order, each rendered "<label>: <value>" with label
\* the record's title, else its question id, else the default word; a
\* template without the placeholder is returned unchanged.
C6_LabelValueLinesSubstituted ==
    IsFinished =>
        /\ resp.final_text =
            Join(LabelValueLines(resp.answers), SplitOn(poll.final_text, Placeholder))
        /\ IndexOf(poll.final_text, Placeholder) = 0 =>
            resp.final_text = poll.final_text

\* a finish whose template holds the placeholder twice and whose records
\* include one without a title and one without title and id
C6_Witness ==
    /\ IsFinished
    /\ Len(SplitOn(poll.final_text, Placeholder)) = 3
    /\ Len(resp.answers) >= 3
    /\ \E i \in 1..Len(resp.answers) :
        /\ Get(resp.answers[i], "question_title") = ""
        /\ Get(resp.answers[i], "qid") # ""
    /\ \E i \in 1..Len(resp.answers) : LabelOf(resp.answers[i]) = DefaultLabel

(***************************************************************************)
(* C7                                                                      *)
(***************************************************************************)
\* C7: when every eligible file of the directory parses, whatever the order
\* of enumeration, the registry ends with exactly one entry per file.
C7_OneEntryPerFile ==
    rstate = "done" =>
        Cardinality(DOMAIN surveys) = Cardinality({ n \in dir : Eligible(n) })

(***************************************************************************)
(* C8                                                                      *)
(***************************************************************************)
RECURSIVE FirstEncounteredId(_)
FirstEncounteredId(rows) ==
    IF rows = <<>> THEN ""
    ELSE IF Strip(rows[1].Id) # "" THEN Strip(rows[1].Id)
    ELSE FirstEncounteredId(Tail(rows))

DeclaredStart == Strip(defn.meta[1].StartQuestionId)

\* C8: the start question id of a returned Survey is a key of its question
\* mapping: the declared id when that is a key, else the id of the first
\* question row that has an id.
C8_StartQidIsQuestion ==
    pstate = "done" =>
        /\ survey.start_qid \in DOMAIN survey.questions
        /\ survey.start_qid =
            IF DeclaredStart \in DOMAIN survey.questions
            THEN DeclaredStart
            ELSE FirstEncounteredId(defn.rows)

\* the declared id is unknown and the first id is met again after another
C8_Witness ==
    /\ pstate = "done"
    /\ DeclaredStart # ""
    /\ DeclaredStart \notin DOMAIN survey.questions
    /\ \E i, j \in 1..Len(defn.rows) :
        /\ i < j
        /\ Strip(defn.rows[i].Id) \notin {"", FirstEncounteredId(defn.rows)}
        /\ Strip(defn.rows[j].Id) = FirstEncounteredId(defn.rows)

(***************************************************************************)
(* C9                                                                      *)
(***************************************************************************)
\* C9: an accepted submission returns the answers it was sent, unchanged,
\* followed by one record of the submitted question; in a session begun with
\* no answers the accumulator holds one record per accepted submission, in
\* the order of the questions answered.
C9_OneRecordAppended ==
    /\ resp.status = 200 =>
        LET n == Len(req.answers)
            last == resp.answers[Len(resp.answers)]
        IN  /\ Len(resp.answers) = n + 1
            /\ SubSeq(resp.answers, 1, n) = req.answers
            /\ DOMAIN last =
                {"qid", "question_title", "question_text", "type", "value_text"}
            /\ last.qid = req.qid
            /\ last.question_title = AskedQuestion.title
            /\ last.question_text = AskedQuestion.text
            /\ last.type = AskedQuestion.qtype
            /\ last.value_text # ""
    /\ acc0 = <<>> =>
        /\ Len(acc) = Len(path)
        /\ \A i \in 1..Len(acc) : acc[i].qid = path[i]

\* the third accepted submission of a session begun with no answers
C9_Witness ==
    /\ resp.status = 200
    /\ acc0 = <<>>
    /\ Len(req.answers) = 2
    /\ Len(acc) = 3

(***************************************************************************)
(* C10                                                                     *)
(***************************************************************************)
\* C10: AdvancedTo always names a question of the Survey; a resolved next id
\* that is set but names no question gives the fault next_question_missing,
\* an empty one gives Finished; the question a session is at, starting from
\* the start question id and following the returned ids, always exists.
C10_NextQuestionExists ==
    /\ IsAdvancedTo => resp.next_qid \in DOMAIN poll.questions
    /\ (Asked /\ PassedValidation) =>
        LET next == IF AskedQuestion.qtype = "single"
                    THEN OptionAt(AskedQuestion, req.option_idx.n).next_qid
                    ELSE AskedQuestion.next_id
        IN  /\ next = "" => IsFinished
            /\ (next # "" /\ next \notin DOMAIN poll.questions) =>
                /\ resp.status = 500
                /\ ~resp.ok
                /\ resp.error = "next_question_missing"
                /\ "answers" \notin DOMAIN resp
            /\ next \in DOMAIN poll.questions =>
                IsAdvancedTo /\ resp.next_qid = next
    /\ cur # "" => cur \in DOMAIN poll.questions

\* a submission whose next id names no question
C10_Witness ==
    /\ Asked
    /\ resp.status = 500
    /\ resp.error = "next_question_missing"
    /\ resp.next_qid \notin DOMAIN poll.questions

====
